---- MODULE Spec2Model ----
(***************************************************************************)
(* The client-side cache synchronisation of svs-index: the IndexedDB store *)
(* (src/src/db.ts), the manifest-driven sync and the read API              *)
(* (src/src/data.ts).  One page runs at a time; every `await` of the code  *)
(* is one step of the model.                                               *)
(***************************************************************************)
EXTENDS Integers, Sequences, FiniteSets, TLC

\* ------------------------------------------------------------------ bounds
\* Number of times one shard file is re-published after its first version.
MaxTs == 1
\* How far below zero the first timestamp of a shard may lie (SpecAnyTs only).
MaxNeg == 2

\* ------------------------------------------------------------ types.ts
Category == {"singer", "software"}

\* The shard files of the data directory, per category.
ShardFiles(category) ==
  IF category = "singer" THEN {"a.json", "b.json"} ELSE {"s.json"}

AllFiles == ShardFiles("singer") \cup ShardFiles("software")

\* The shard files that submissions change while the model runs; the other
\* shards keep their first version.
Edited == {"a.json"}

\* The category a shard file belongs to.
CategoryOf(file) == IF file \in ShardFiles("singer") THEN "singer" ELSE "software"

\* A record: its id, its names map and its optional homepage_url ("none" when
\* the field is absent).
Rec(id, names, homepage) == [id |-> id, names |-> names, homepage_url |-> homepage]

\* The array held by shard `file` when its timestamp is ts: version after
\* version a record is added, changed (losing an optional field) or removed.
ShardData(file, ts) ==
  IF file = "a.json" THEN
    CASE ts % 3 = 0 -> << Rec("a1", ts, "h") >>
      [] ts % 3 = 1 -> << Rec("a1", ts, "none"), Rec("a2", ts, "none") >>
      [] OTHER      -> << Rec("a2", ts, "h") >>
  ELSE IF file = "b.json" THEN
    IF ts % 2 = 0 THEN << Rec("b1", ts, "none") >> ELSE << >>
  ELSE
    IF ts % 2 = 0 THEN << Rec("s1", ts, "h") >>
    ELSE << Rec("s1", ts, "none"), Rec("s2", ts, "none") >>

\* ------------------------------------------------------------ state
VARIABLES
  epoch,     \* the timestamp of the first version of every shard
  srvTs,     \* server: the current timestamp (mtime) of each shard file
  manifest,  \* window.DATA_MANIFEST of the loaded page
  db,        \* the IndexedDB database: singers, softwares, meta
  sync,      \* per category: the ensureCategoryUpdated call in progress
  call,      \* the loadCategory / loadAllData call of the page
  result,    \* what that call has read so far, per category
  hist,      \* per category: what the current sync call has done (history)
  last,      \* per category: how the previous sync call under this manifest ended
  boot,      \* the boot() of the loaded page (index or detail)
  repo,      \* the data/ directory of the repository and the last workflow run
  editor,    \* the Singer Editor page: its variables, its DOM, its localStorage
  tab        \* a second tab on the same origin: its manifest and its sync

\* The variables of the browsing pages.
pageVars ==
  << epoch, srvTs, manifest, db, sync, call, result, hist, last, boot, tab >>

vars == << epoch, srvTs, manifest, db, sync, call, result, hist, last, boot,
           repo, editor, tab >>

\* ------------------------------------------------------------ db.ts
\* Variant of StoreOf with one object store shared by the two categories.
StoreOfShared(category) == "singers"

\* The object store of a category.
StoreOf(category) == IF category = "singer" THEN "singers" ELSE "softwares"

\* Variant of Put that merges by field: an absent optional field keeps the
\* stored value.
MergeKeepOld(store, it) ==
  IF it.id \in DOMAIN store /\ it.homepage_url = "none"
  THEN (it.id :> [it EXCEPT !.homepage_url = store[it.id].homepage_url]) @@ store
  ELSE (it.id :> it) @@ store

\* objectStore.put of one item: upsert by the key path 'id'.
Put(store, it) == (it.id :> it) @@ store

\* Variant of PutMany that puts the first item only.
PutHeadOnly(store, items) ==
  IF items = << >> THEN store ELSE Put(store, Head(items))

\* Variant of PutMany that clears the object store before putting the items.
PutManyCleared(store, items) ==
  [id \in { items[n].id : n \in 1..Len(items) } |->
     items[CHOOSE n \in 1..Len(items) :
             /\ items[n].id = id
             /\ \A m \in (n + 1)..Len(items) : items[m].id # id]]

\* putSingers / putSoftwares: one transaction putting every item in order.
RECURSIVE PutMany(_, _)
PutMany(store, items) ==
  IF items = << >> THEN store
  ELSE PutMany(Put(store, Head(items)), Tail(items))

\* getAllSingers / getAllSoftwares: every record of the object store.
GetAll(store) == { store[id] : id \in DOMAIN store }

\* getMeta: the value stored under key, or undefined.
GetMeta(meta, key) ==
  IF key \in DOMAIN meta THEN [def |-> TRUE, value |-> meta[key]]
  ELSE [def |-> FALSE, value |-> 0]

\* setMeta: put {key, value} into the meta store.
SetMetaRec(meta, key, value) == (key :> value) @@ meta

EmptyStore == << >>

\* ------------------------------------------------------------ data.ts
\* window.DATA_MANIFEST was never set by the page.
NoManifest == [kind |-> "undefined"]

\* getManifest() gave an object and it has the category's list: neither
\* `manifest.singers` nor the `for ... of entries` throws a TypeError.
HasEntries(category) ==
  (IF category = "singer" THEN "singers" ELSE "softwares") \in DOMAIN manifest

\* manifest.singers / manifest.softwares of the page's manifest.
Entries(category) ==
  IF category = "singer" THEN manifest.singers ELSE manifest.softwares

\* Variant of BasePath that ignores the category.
BasePathOfSoftwares(category) == "/data/softwares/"

\* basePath = category === 'singer' ? '/data/singers/' : '/data/softwares/'
BasePath(category) ==
  IF category = "singer" THEN "/data/singers/" ELSE "/data/softwares/"

\* Variant of MetaKey that leaves the category out of the key.
MetaKeyNoCategory(category, file) == "file:" \o file

\* `${category}:file:${file}`
MetaKey(category, file) == category \o ":file:" \o file

\* Variant of SavedTs with the default 0.
SavedTsZero(meta, key) ==
  LET m == GetMeta(meta, key) IN IF m.def THEN m.value ELSE 0

\* (await getMeta<number>(metaKey)) ?? -1
SavedTs(meta, key) ==
  LET m == GetMeta(meta, key) IN IF m.def THEN m.value ELSE -1

\* Variant of IsChanged that also takes an equal timestamp as changed.
IsChangedOrEqual(savedTs, ts) == savedTs <= ts

\* if (savedTs < ts) changedFiles.push(file)
IsChanged(savedTs, ts) == savedTs < ts

\* Variant of FindTs that takes the first entry whatever its file.
FirstTs(entries, file) == entries[1].ts

\* entries.find((e) => e.file === file)!.ts
FindTs(entries, file) ==
  LET i == CHOOSE i \in 1..Len(entries) :
             /\ entries[i].file = file
             /\ \A j \in 1..(i - 1) : entries[j].file # file
  IN entries[i].ts

\* JSON values as fetchJSON returns them.
Undefined == [kind |-> "undefined", items |-> << >>]
JsonNull == [kind |-> "null", items |-> << >>]
JsonObject == [kind |-> "object", items |-> << >>]
JsonNumber == [kind |-> "number", items |-> << >>]
JsonArray(items) == [kind |-> "array", items |-> items]

\* The path under which the build serves a shard file (dist/data/...).
ServerPath(f) ==
  IF CategoryOf(f) = "singer" THEN "/data/singers/" \o f ELSE "/data/softwares/" \o f

\* The shard file the static server holds at url, or nothing (404).
ServerFile(url) == { f \in AllFiles : ServerPath(f) = url }

\* What the network can answer to a GET of url: the fetch throws, the status
\* is not 2xx, the body does not parse, or the body parses to a JSON value.
Responses(url) ==
  { [thrown |-> TRUE,  ok |-> FALSE, parses |-> FALSE, json |-> Undefined],
    [thrown |-> FALSE, ok |-> FALSE, parses |-> FALSE, json |-> Undefined],
    [thrown |-> FALSE, ok |-> TRUE,  parses |-> FALSE, json |-> Undefined],
    [thrown |-> FALSE, ok |-> TRUE,  parses |-> TRUE,  json |-> JsonNull],
    [thrown |-> FALSE, ok |-> TRUE,  parses |-> TRUE,  json |-> JsonObject],
    [thrown |-> FALSE, ok |-> TRUE,  parses |-> TRUE,  json |-> JsonNumber] }
  \cup
  { [thrown |-> FALSE, ok |-> TRUE, parses |-> TRUE,
     json |-> JsonArray(ShardData(f, srvTs[f]))] : f \in ServerFile(url) }

\* Every answer to a GET of a shard of the category.
AnyResponse(category) ==
  UNION { Responses(BasePath(category) \o f) : f \in ShardFiles(category) }

\* fetchJSON: undefined on a throw, a non-ok status or a parse error.
FetchJSON(res) ==
  IF res.thrown THEN Undefined
  ELSE IF ~res.ok THEN Undefined
  ELSE IF ~res.parses THEN Undefined
  ELSE res.json

\* data && Array.isArray(data); the number of JsonNumber is not 0.
Truthy(data) == data.kind \in {"object", "number", "array"}
IsArray(data) == data.kind = "array"

\* Variant of Usable without the Array.isArray test.
UsableAnyJson(data) == Truthy(data)

Usable(data) == Truthy(data) /\ IsArray(data)

IdleSync ==
  [pc |-> "idle", i |-> 0, changedFiles |-> << >>, k |-> 0, allData |-> << >>]

\* What a sync call has done so far (history, read by no action): meta0 is
\* the category's part of the meta store as the call found it, empty0 whether
\* it found the whole database empty; fetched lists the URLs requested, got
\* the arrays received, failed the shards whose fetch gave no array; metaSet,
\* puts, replaced and added log the writes.
NoHist(category) ==
  [meta0 |-> [key \in { MetaKey(category, f) : f \in ShardFiles(category) }
                        \cap DOMAIN db.meta |-> db.meta[key]],
   empty0 |-> \A p \in DOMAIN db : DOMAIN db[p] = {},
   fetched |-> << >>, got |-> << >>, failed |-> {}, metaSet |-> {},
   puts |-> 0, replaced |-> {}, added |-> {}]

\* Variant of AfterScan without the early return and the allData.length test.
AfterScanNoReturn(s, changed) ==
  IF changed = << >>
  THEN [s EXCEPT !.pc = "put", !.changedFiles = changed]
  ELSE [s EXCEPT !.pc = "fetch", !.changedFiles = changed, !.k = 1]

\* if (changedFiles.length === 0) return; else the first fetch is issued.
AfterScan(s, changed) ==
  IF changed = << >>
  THEN [s EXCEPT !.pc = "done", !.changedFiles = changed]
  ELSE [s EXCEPT !.pc = "fetch", !.changedFiles = changed, !.k = 1]

\* Variant of AfterShard that writes the records as soon as one shard has
\* given some, before the remaining fetches.
AfterShardPutEarly(s, allData) ==
  IF allData # << >>
  THEN [s EXCEPT !.pc = "put", !.allData = allData]
  ELSE IF s.k < Len(s.changedFiles)
  THEN [s EXCEPT !.pc = "fetch", !.k = s.k + 1, !.allData = allData]
  ELSE [s EXCEPT !.pc = "done", !.allData = allData]

\* The end of one turn of `for (const file of changedFiles)`: the next fetch,
\* or `if (allData.length) await putSingers(allData)`, or the return.
AfterShard(s, allData) ==
  IF s.k < Len(s.changedFiles)
  THEN [s EXCEPT !.pc = "fetch", !.k = s.k + 1, !.allData = allData]
  ELSE IF allData # << >>
  THEN [s EXCEPT !.pc = "put", !.allData = allData]
  ELSE [s EXCEPT !.pc = "done", !.allData = allData]

\* Variant of SkipShard that leaves the loop at the first failed fetch.
AbortOnFailure(s) ==
  IF s.allData # << >> THEN [s EXCEPT !.pc = "put"] ELSE [s EXCEPT !.pc = "done"]

\* Variant of SkipShard that fetches the shard again.
RetryShard(s) == [s EXCEPT !.pc = "fetch"]

\* A shard whose fetch gave no array is skipped: on to the next one.
SkipShard(s) == AfterShard(s, s.allData)

\* The call of ensureCategoryUpdated up to its first await.
StartSync(category) ==
  IF ~HasEntries(category)
  THEN [IdleSync EXCEPT !.pc = "rejected"]
  ELSE IF Entries(category) = << >>
  THEN AfterScan(IdleSync, << >>)
  ELSE [IdleSync EXCEPT !.pc = "getMeta", !.i = 1]

\* ------------------------------------------------------------ the page
\* The manifests generate-manifest.js can have injected into a page the
\* browser loads now: every shard file of the data directory, in the order
\* readdir gave, with a timestamp the file had at some build up to the
\* latest (a cached page carries an older manifest).
ManifestList(order, ts) ==
  [i \in 1..Len(order) |-> [file |-> order[i], ts |-> ts[order[i]]]]

Orders(category) ==
  IF category = "singer"
  THEN { << "a.json", "b.json" >>, << "b.json", "a.json" >> }
  ELSE { << "s.json" >> }

Manifests ==
  { [singers |-> ManifestList(o1, ts), softwares |-> ManifestList(o2, ts)] :
      o1 \in Orders("singer"), o2 \in Orders("software"),
      ts \in { t \in [AllFiles -> epoch..(epoch + MaxTs)] :
                 \A f \in AllFiles : t[f] <= srvTs[f] } }

NoCall == [kind |-> "none", category |-> "none", pc |-> "idle"]
NoResult == [c \in Category |-> [read |-> FALSE, items |-> {}]]
NoLast == [outcome |-> "none", failed |-> {}]

\* No record: what getSingerById / getSoftwareById give for an absent id.
NoItem == [def |-> FALSE, value |-> Rec("", 0, "none")]

\* boot() has not run yet. page is the page that runs it; status what the
\* page shows; lookups, syncs and thrown are history: the getById calls
\* resolved, the loadCategory / loadAllData calls made, the error caught.
NoBoot ==
  [page |-> "none", pc |-> "idle", category |-> "none", id |-> "",
   item |-> NoItem, status |-> "", lookups |-> 0, syncs |-> 0, thrown |-> "none"]

\* The repository before any submission was processed: both data
\* directories without shard files; issue and category are the issue
\* detectCategory last looked at and what it returned.
NoRuns ==
  [data |-> [c \in {"singer", "software"} |-> << >>],
   issues |-> 0, exit |-> "none", error |-> "none",
   issue |-> [labels |-> [kind |-> "ok", labels |-> << >>], title |-> << >>,
              category |-> [def |-> FALSE, value |-> ""],
              developers |-> [def |-> FALSE, value |-> ""]],
   category |-> "none"]

\* No second tab is open.  got is history: the arrays its sync received.
NoTab == [manifest |-> NoManifest, sync |-> IdleSync, got |-> << >>]

\* The Singer Editor before its page is opened.
NoEditor == [open |-> FALSE, draft |-> [saved |-> FALSE, text |-> << >>]]

\* How the sync call of a category ended, for the next call to compare with.
Summary(category) ==
  LET s == sync[category] IN
  IF s.pc = "idle" THEN last[category]
  ELSE [outcome |->
          IF s.pc = "rejected" THEN "rejected"
          ELSE IF hist[category].failed = {} THEN "clean" ELSE "partial",
        failed |-> hist[category].failed]

InitWith(e) ==
  /\ epoch = e
  /\ srvTs = [f \in AllFiles |-> e]
  /\ manifest \in
       { [singers |-> ManifestList(o1, srvTs), softwares |-> ManifestList(o2, srvTs)] :
           o1 \in Orders("singer"), o2 \in Orders("software") }
  /\ db = [singers |-> EmptyStore, softwares |-> EmptyStore, meta |-> EmptyStore]
  /\ sync = [c \in Category |-> IdleSync]
  /\ call = NoCall
  /\ result = NoResult
  /\ hist = [c \in Category |-> NoHist(c)]
  /\ last = [c \in Category |-> NoLast]
  /\ boot = NoBoot
  /\ repo = NoRuns
  /\ editor = NoEditor
  /\ tab = NoTab

Init == InitWith(0)

\* A new build is deployed: shard file f has changed, its mtime is newer.
Publish(f) ==
  /\ f \in Edited
  /\ srvTs[f] - epoch < MaxTs
  /\ srvTs' = [srvTs EXCEPT ![f] = srvTs[f] + 1]
  /\ UNCHANGED << tab, repo, editor, boot, epoch, manifest, db, sync, call, result, hist, last >>

\* The page is closed (whatever it was doing is dropped) and a page is loaded.
LoadPage(m) ==
  /\ manifest' = m
  /\ sync' = [c \in Category |-> IdleSync]
  /\ call' = NoCall
  /\ result' = NoResult
  /\ hist' = [c \in Category |-> NoHist(c)]
  /\ last' = [c \in Category |-> NoLast]
  /\ boot' = NoBoot
  /\ UNCHANGED << tab, repo, editor, epoch, srvTs, db >>

Quiet ==
  /\ call.pc \in {"idle", "resolved", "rejected"}
  /\ \A c \in Category : sync[c].pc \in {"idle", "done", "rejected"}

\* loadCategory(category) up to its first await.
CallLoadCategory(category) ==
  /\ call' = [kind |-> "loadCategory", category |-> category, pc |-> "sync"]
  /\ sync' = [c \in Category |-> IF c = category THEN StartSync(c) ELSE IdleSync]
  /\ hist' = [c \in Category |-> NoHist(c)]
  /\ last' = [c \in Category |-> Summary(c)]
  /\ result' = NoResult
  /\ UNCHANGED << tab, repo, editor, epoch, srvTs, manifest, db >>

\* loadCategory(category): await ensureCategoryUpdated(category), then getAll.
LoadCategory(category) ==
  /\ Quiet
  /\ CallLoadCategory(category)
  /\ UNCHANGED boot

\* loadAllData() up to its first await.
CallLoadAllData ==
  /\ call' = [kind |-> "loadAllData", category |-> "none", pc |-> "sync"]
  /\ sync' = [c \in Category |-> StartSync(c)]
  /\ hist' = [c \in Category |-> NoHist(c)]
  /\ last' = [c \in Category |-> Summary(c)]
  /\ result' = NoResult
  /\ UNCHANGED << tab, repo, editor, epoch, srvTs, manifest, db >>

\* loadAllData(): Promise.all of the two syncs, then Promise.all of the reads.
LoadAllData ==
  /\ Quiet
  /\ CallLoadAllData
  /\ UNCHANGED boot

\* ensureCategoryUpdated, `await getMeta(metaKey)` of the scan loop resolves.
ScanShard(category) ==
  LET s == sync[category]
      e == Entries(category)[s.i]
      savedTs == SavedTs(db.meta, MetaKey(category, e.file))
      changed == IF IsChanged(savedTs, e.ts)
                 THEN Append(s.changedFiles, e.file) ELSE s.changedFiles
  IN /\ s.pc = "getMeta"
     /\ sync' = [sync EXCEPT ![category] =
                   IF s.i < Len(Entries(category))
                   THEN [s EXCEPT !.i = s.i + 1, !.changedFiles = changed]
                   ELSE AfterScan(s, changed)]
     /\ UNCHANGED << tab, repo, editor, boot, epoch, srvTs, manifest, db, call, result, hist, last >>

\* ensureCategoryUpdated, `await fetchJSON(basePath + file)` resolves.
FetchShard(category, res) ==
  LET s == sync[category]
      file == s.changedFiles[s.k]
      data == FetchJSON(res)
      h == hist[category]
  IN /\ s.pc = "fetch"
     /\ res \in Responses(BasePath(category) \o file)
     /\ IF Usable(data)
        THEN /\ sync' = [sync EXCEPT ![category] =
                           [s EXCEPT !.pc = "setMeta",
                                     !.allData = s.allData \o data.items]]
             /\ hist' = [hist EXCEPT ![category] =
                           [h EXCEPT !.fetched = Append(h.fetched, BasePath(category) \o file),
                                     !.got = (file :> data.items) @@ h.got]]
        ELSE /\ sync' = [sync EXCEPT ![category] = SkipShard(s)]
             /\ hist' = [hist EXCEPT ![category] =
                           [h EXCEPT !.fetched = Append(h.fetched, BasePath(category) \o file),
                                     !.failed = h.failed \cup {file}]]
     /\ UNCHANGED << tab, repo, editor, boot, epoch, srvTs, manifest, db, call, result, last >>

\* ensureCategoryUpdated, `await setMeta(key, ts)` of the fetched shard resolves.
AdvanceMeta(category) ==
  LET s == sync[category]
      file == s.changedFiles[s.k]
      key == MetaKey(category, file)
      h == hist[category]
  IN /\ s.pc = "setMeta"
     /\ db' = [db EXCEPT !.meta =
                 SetMetaRec(db.meta, key, FindTs(Entries(category), file))]
     /\ sync' = [sync EXCEPT ![category] = AfterShard(s, s.allData)]
     /\ hist' = [hist EXCEPT ![category] = [h EXCEPT !.metaSet = h.metaSet \cup {key}]]
     /\ UNCHANGED << tab, repo, editor, boot, epoch, srvTs, manifest, call, result, last >>

\* ensureCategoryUpdated, `await putSingers(allData)` / putSoftwares resolves.
PutRecords(category) ==
  LET s == sync[category]
      h == hist[category]
  IN /\ s.pc = "put"
     /\ db' = [db EXCEPT ![StoreOf(category)] =
                 PutMany(db[StoreOf(category)], s.allData)]
     /\ sync' = [sync EXCEPT ![category] = [s EXCEPT !.pc = "done"]]
     /\ hist' = [hist EXCEPT ![category] =
                   [h EXCEPT !.puts = h.puts + 1,
                             !.replaced = { id \in DOMAIN db[StoreOf(category)] :
                                 \E n \in 1..Len(s.allData) :
                                    /\ s.allData[n].id = id
                                    /\ s.allData[n] # db[StoreOf(category)][id] },
                             !.added = { s.allData[n].id : n \in 1..Len(s.allData) }
                                          \ DOMAIN db[StoreOf(category)]]]
     /\ UNCHANGED << tab, repo, editor, boot, epoch, srvTs, manifest, call, result, last >>

\* A Store operation of the sync fails (openDB or the transaction rejects):
\* the await throws and ensureCategoryUpdated rejects.
StoreFail(category) ==
  /\ sync[category].pc \in {"getMeta", "setMeta", "put"}
  /\ sync' = [sync EXCEPT ![category] = [sync[category] EXCEPT !.pc = "rejected"]]
  /\ UNCHANGED << tab, repo, editor, boot, epoch, srvTs, manifest, db, call, result, hist, last >>

\* The syncs the page's call awaits.
Awaited ==
  IF call.kind = "loadAllData" THEN Category
  ELSE IF call.kind = "loadCategory" THEN {call.category} ELSE {}

\* Variant of ReadAll that does not await the syncs before reading.
ReadAllEarly(category) ==
  /\ call.pc = "sync"
  /\ category \in Awaited
  /\ ~result[category].read
  /\ result' = [result EXCEPT ![category] =
                  [read |-> TRUE, items |-> GetAll(db[StoreOf(category)])]]
  /\ call' = IF \A c \in Awaited \ {category} : result[c].read
             THEN [call EXCEPT !.pc = "resolved"] ELSE call
  /\ UNCHANGED << tab, repo, editor, boot, epoch, srvTs, manifest, db, sync, hist, last >>

\* getAllSingers / getAllSoftwares of the call resolves.
ReadAll(category) ==
  /\ call.pc = "sync"
  /\ category \in Awaited
  /\ \A c \in Awaited : sync[c].pc = "done"
  /\ ~result[category].read
  /\ result' = [result EXCEPT ![category] =
                  [read |-> TRUE, items |-> GetAll(db[StoreOf(category)])]]
  /\ call' = IF \A c \in Awaited \ {category} : result[c].read
             THEN [call EXCEPT !.pc = "resolved"] ELSE call
  /\ UNCHANGED << tab, repo, editor, boot, epoch, srvTs, manifest, db, sync, hist, last >>

\* An awaited sync has rejected, or a getAll fails: the call rejects.
RejectCall ==
  /\ call.pc = "sync"
  /\ \/ \E c \in Awaited : sync[c].pc = "rejected"
     \/ \A c \in Awaited : sync[c].pc = "done"
  /\ call' = [call EXCEPT !.pc = "rejected"]
  /\ UNCHANGED << tab, repo, editor, boot, epoch, srvTs, manifest, db, sync, result, hist, last >>

\* The steps of a running ensureCategoryUpdated and of the call awaiting it.
SyncStep ==
  \/ \E c \in Category : ScanShard(c)
  \/ \E c \in Category : \E res \in AnyResponse(c) : FetchShard(c, res)
  \/ \E c \in Category : AdvanceMeta(c)
  \/ \E c \in Category : PutRecords(c)
  \/ \E c \in Category : StoreFail(c)
  \/ \E c \in Category : ReadAll(c)
  \/ RejectCall

\* The detail page: one category is loaded at a time.
Next ==
  \/ \E f \in AllFiles : Publish(f)
  \/ \E m \in Manifests : LoadPage(m)
  \/ \E c \in Category : LoadCategory(c)
  \/ SyncStep

Spec == Init /\ [][Next]_vars

\* The same, for manifests whose timestamps may lie below zero.
InitAnyTs == \E e \in (0 - MaxNeg)..0 : InitWith(e)

SpecAnyTs == InitAnyTs /\ [][Next]_vars

\* The same, for a repository whose shards are all at their second version:
\* b.json has been emptied.
InitLate == InitWith(1)

SpecLate == InitLate /\ [][Next]_vars

\* The index page: both categories are synced concurrently by loadAllData.
NextAll ==
  \/ \E m \in Manifests : LoadPage(m)
  \/ LoadAllData
  \/ SyncStep

SpecAll == Init /\ [][NextAll]_vars

\* The same with every awaited operation completing or failing in the end:
\* a pending Store request or fetch of either sync, a pending getAll and the
\* rejection of Promise.all are not postponed for ever.
FairAll ==
  /\ WF_vars(ScanShard("singer") \/ AdvanceMeta("singer")
               \/ PutRecords("singer") \/ StoreFail("singer")
               \/ \E res \in AnyResponse("singer") : FetchShard("singer", res))
  /\ WF_vars(ScanShard("software") \/ AdvanceMeta("software")
               \/ PutRecords("software") \/ StoreFail("software")
               \/ \E res \in AnyResponse("software") : FetchShard("software", res))
  /\ WF_vars(\E c \in Category : ReadAll(c))
  /\ WF_vars(RejectCall)

SpecAllFair == SpecAll /\ FairAll

\* ------------------------------------------------------------ two tabs
\* A second tab of the same origin shares the IndexedDB database and has its
\* own window.DATA_MANIFEST and its own run of ensureCategoryUpdated('singer');
\* the steps are those of data.ts:26-55, on the tab's manifest.
TabLoad(m) ==
  /\ tab.sync.pc \in {"idle", "done"}
  /\ tab' = [manifest |-> m,
             sync |-> IF m.singers = << >> THEN AfterScan(IdleSync, << >>)
                      ELSE [IdleSync EXCEPT !.pc = "getMeta", !.i = 1],
             got |-> << >>]
  /\ UNCHANGED << repo, editor, epoch, srvTs, manifest, db, sync, call, result,
                  hist, last, boot >>

\* `await getMeta(metaKey)` of the tab's scan loop resolves.
TabScan ==
  LET s == tab.sync
      e == tab.manifest.singers[s.i]
      savedTs == SavedTs(db.meta, MetaKey("singer", e.file))
      changed == IF IsChanged(savedTs, e.ts)
                 THEN Append(s.changedFiles, e.file) ELSE s.changedFiles
  IN /\ s.pc = "getMeta"
     /\ tab' = [tab EXCEPT !.sync =
                  IF s.i < Len(tab.manifest.singers)
                  THEN [s EXCEPT !.i = s.i + 1, !.changedFiles = changed]
                  ELSE AfterScan(s, changed)]
     /\ UNCHANGED << repo, editor, epoch, srvTs, manifest, db, sync, call, result,
                     hist, last, boot >>

\* `await fetchJSON(basePath + file)` of the tab resolves.
TabFetch(res) ==
  LET s == tab.sync
      file == s.changedFiles[s.k]
      data == FetchJSON(res)
  IN /\ s.pc = "fetch"
     /\ res \in Responses(BasePath("singer") \o file)
     /\ tab' = IF Usable(data)
               THEN [tab EXCEPT !.sync = [s EXCEPT !.pc = "setMeta",
                                                   !.allData = s.allData \o data.items],
                                !.got = (file :> data.items) @@ tab.got]
               ELSE [tab EXCEPT !.sync = SkipShard(s)]
     /\ UNCHANGED << repo, editor, epoch, srvTs, manifest, db, sync, call, result,
                     hist, last, boot >>

\* `await setMeta(key, ts)` of the tab resolves.
TabAdvanceMeta ==
  LET s == tab.sync
      file == s.changedFiles[s.k]
  IN /\ s.pc = "setMeta"
     /\ db' = [db EXCEPT !.meta =
                 SetMetaRec(db.meta, MetaKey("singer", file),
                            FindTs(tab.manifest.singers, file))]
     /\ tab' = [tab EXCEPT !.sync = AfterShard(s, s.allData)]
     /\ UNCHANGED << repo, editor, epoch, srvTs, manifest, sync, call, result,
                     hist, last, boot >>

\* `await putSingers(allData)` of the tab resolves.
TabPut ==
  /\ tab.sync.pc = "put"
  /\ db' = [db EXCEPT ![StoreOf("singer")] =
              PutMany(db[StoreOf("singer")], tab.sync.allData)]
  /\ tab' = [tab EXCEPT !.sync = [tab.sync EXCEPT !.pc = "done"]]
  /\ UNCHANGED << repo, editor, epoch, srvTs, manifest, sync, call, result,
                  hist, last, boot >>

\* Two tabs on the singers: the page of the model and the second tab, each
\* loaded with a manifest of some build, syncing while builds are deployed.
NextTabs ==
  \/ \E f \in AllFiles : Publish(f)
  \/ \E m \in Manifests : Quiet /\ LoadPage(m)
  \/ LoadCategory("singer")
  \/ ScanShard("singer")
  \/ \E res \in AnyResponse("singer") : FetchShard("singer", res)
  \/ AdvanceMeta("singer")
  \/ PutRecords("singer")
  \/ ReadAll("singer")
  \/ \E m \in Manifests : TabLoad(m)
  \/ TabScan
  \/ \E res \in AnyResponse("singer") : TabFetch(res)
  \/ TabAdvanceMeta
  \/ TabPut

SpecTabs == Init /\ [][NextTabs]_vars

\* ------------------------------------------------------------ pages
\* getSingerById / getSoftwareById: objectStore.get(id), the record or undefined.
GetById(store, id) ==
  IF id \in DOMAIN store THEN [def |-> TRUE, value |-> store[id]] ELSE NoItem

\* The ids a detail URL may carry: '' is a URL without an id, "zz" an id no
\* shard holds.
DetailIds == {"", "a1", "a2", "s1", "zz"}

\* What the catch of a page's boot() shows.
FailedText(page) ==
  IF page = "index" THEN "Failed to load data." ELSE "Failed to load detail."

\* detail.ts boot(): getParams and the check of id, up to the first lookup.
BootDetail(category, id) ==
  /\ boot.pc = "idle"
  /\ call = NoCall
  /\ boot' = IF id = ""
             THEN [boot EXCEPT !.page = "detail", !.pc = "done",
                               !.category = category, !.status = "Missing id."]
             ELSE [boot EXCEPT !.page = "detail", !.pc = "get1",
                               !.category = category, !.id = id]
  /\ UNCHANGED << tab, repo, editor, epoch, srvTs, manifest, db, sync, call, result, hist, last >>

\* Variant of FirstLookup that gives up on a miss instead of syncing.
FirstLookupNoSync ==
  /\ boot.pc = "get1"
  /\ LET item == GetById(db[StoreOf(boot.category)], boot.id) IN
       boot' = IF item.def
               THEN [boot EXCEPT !.pc = "done", !.item = item,
                                 !.status = "rendered",
                                 !.lookups = boot.lookups + 1]
               ELSE [boot EXCEPT !.pc = "done", !.item = item,
                                 !.status = FailedText("detail"),
                                 !.thrown = "not found",
                                 !.lookups = boot.lookups + 1]
  /\ UNCHANGED << tab, repo, editor, epoch, srvTs, manifest, db, sync, call, result, hist, last >>

\* The first getById resolves: render the item, or call loadCategory.
FirstLookup ==
  /\ boot.pc = "get1"
  /\ LET item == GetById(db[StoreOf(boot.category)], boot.id) IN
       IF item.def
       THEN /\ boot' = [boot EXCEPT !.pc = "done", !.item = item,
                                    !.status = "rendered",
                                    !.lookups = boot.lookups + 1]
            /\ UNCHANGED << tab, repo, editor, epoch, srvTs, manifest, db, sync, call, result,
                            hist, last >>
       ELSE /\ boot' = [boot EXCEPT !.pc = "loading", !.item = item,
                                    !.lookups = boot.lookups + 1,
                                    !.syncs = boot.syncs + 1]
            /\ CallLoadCategory(boot.category)

\* loadCategory has resolved and the second getById resolves: render the
\* item, or throw 'Singer not found' / 'Software not found' into the catch.
SecondLookup ==
  /\ boot.page = "detail"
  /\ boot.pc = "loading"
  /\ call.pc = "resolved"
  /\ LET item == GetById(db[StoreOf(boot.category)], boot.id) IN
       boot' = IF item.def
               THEN [boot EXCEPT !.pc = "done", !.item = item,
                                 !.status = "rendered",
                                 !.lookups = boot.lookups + 1]
               ELSE [boot EXCEPT !.pc = "done", !.item = item,
                                 !.status = FailedText("detail"),
                                 !.thrown = "not found",
                                 !.lookups = boot.lookups + 1]
  /\ UNCHANGED << tab, repo, editor, epoch, srvTs, manifest, db, sync, call, result, hist, last >>

\* A getById rejects (openDB or the request fails): the catch of boot().
LookupFail ==
  /\ boot.page = "detail"
  /\ \/ boot.pc = "get1"
     \/ boot.pc = "loading" /\ call.pc = "resolved"
  /\ boot' = [boot EXCEPT !.pc = "done", !.status = FailedText("detail"),
                          !.thrown = "store"]
  /\ UNCHANGED << tab, repo, editor, epoch, srvTs, manifest, db, sync, call, result, hist, last >>

\* main.ts boot(): wireEvents, then loadAllData.
BootIndex ==
  /\ boot.pc = "idle"
  /\ call = NoCall
  /\ boot' = [boot EXCEPT !.page = "index", !.pc = "loading",
                          !.syncs = boot.syncs + 1]
  /\ CallLoadAllData

\* loadAllData has resolved: the status line counts the records.
IndexLoaded ==
  /\ boot.page = "index"
  /\ boot.pc = "loading"
  /\ call.pc = "resolved"
  /\ boot' = [boot EXCEPT !.pc = "done", !.status = "loaded"]
  /\ UNCHANGED << tab, repo, editor, epoch, srvTs, manifest, db, sync, call, result, hist, last >>

\* Variant of BootCatch without the try / catch: the rejection ends boot()
\* and the page shows nothing.
BootCatchUnhandled ==
  /\ boot.pc = "loading"
  /\ call.pc = "rejected"
  /\ boot' = [boot EXCEPT !.pc = "done", !.thrown = "store"]
  /\ UNCHANGED << tab, repo, editor, epoch, srvTs, manifest, db, sync, call, result, hist, last >>

\* The awaited loadCategory / loadAllData has rejected: the catch of boot().
BootCatch ==
  /\ boot.pc = "loading"
  /\ call.pc = "rejected"
  /\ boot' = [boot EXCEPT !.pc = "done", !.status = FailedText(boot.page),
                          !.thrown = "store"]
  /\ UNCHANGED << tab, repo, editor, epoch, srvTs, manifest, db, sync, call, result, hist, last >>

BootStep ==
  \/ FirstLookup
  \/ SecondLookup
  \/ LookupFail
  \/ IndexLoaded
  \/ BootCatch

\* The two pages as the browser runs them: a page is loaded, its boot() runs
\* once, and the syncs it starts run to their end or until the page is left.
NextPages ==
  \/ \E f \in AllFiles : Publish(f)
  \/ \E m \in Manifests : LoadPage(m)
  \/ \E c \in Category : \E id \in DetailIds : BootDetail(c, id)
  \/ BootIndex
  \/ BootStep
  \/ SyncStep

SpecPages == Init /\ [][NextPages]_vars

\* Pages whose manifest is missing or incomplete: DATA_MANIFEST undefined,
\* one or both lists missing, one or both lists empty.
MalformedManifests ==
  { NoManifest,
    [softwares |-> ManifestList(<< "s.json" >>, srvTs)],
    [singers |-> ManifestList(<< "a.json", "b.json" >>, srvTs)],
    [singers |-> << >>, softwares |-> << >>],
    [singers |-> << >>, softwares |-> ManifestList(<< "s.json" >>, srvTs)] }

\* The two pages, loaded with well-formed and with malformed manifests.
NextManifest ==
  \/ \E m \in Manifests : LoadPage(m)
  \/ \E m \in MalformedManifests : LoadPage(m)
  \/ \E c \in Category : \E id \in DetailIds : BootDetail(c, id)
  \/ BootIndex
  \/ BootStep
  \/ SyncStep

SpecManifest == Init /\ [][NextManifest]_vars

\* ------------------------------------------------------------ process-issue.js
\* The submissions a workflow run may process at most.
MaxIssues == 3

\* The ids submitted, as lists of characters.
IssueIds == { << "a", "1" >>, << "a", "2" >>, << "A", "1" >>, << "b", "1" >> }

\* String.prototype.toLowerCase on one character.
ToLowerCase(ch) ==
  IF ch = "A" THEN "a" ELSE IF ch = "B" THEN "b" ELSE IF ch = "N" THEN "n" ELSE ch

\* Variant of TargetFile that names the file by the character as submitted.
TargetFileAsSubmitted(id) == id[1] \o ".json"

\* `${firstLetter}.json` with firstLetter = obj.id[0].toLowerCase().
TargetFile(id) == ToLowerCase(id[1]) \o ".json"

\* Variant of HasId that finds nothing.
HasIdNever(existing, id) == FALSE

\* existing.some((item) => item.id === obj.id)
HasId(existing, id) == \E n \in 1..Len(existing) : existing[n].id = id

\* main() once the object is built, as run() ends it.  valid: the link check
\* and validateSchema both pass; otherwise one of them throws before a file
\* is touched.
ProcessIssue(category, id, valid) ==
  /\ repo.issues < MaxIssues
  /\ LET dataDir == repo.data[category]
         obj == [id |-> id, issue |-> repo.issues + 1]
         targetFile == TargetFile(id)
         existing == IF targetFile \in DOMAIN dataDir
                     THEN dataDir[targetFile] ELSE << >>
     IN repo' =
          IF ~valid
          THEN [repo EXCEPT !.issues = repo.issues + 1, !.exit = "failed",
                            !.error = "validation"]
          ELSE IF targetFile \in DOMAIN dataDir /\ HasId(existing, id)
          THEN [repo EXCEPT !.issues = repo.issues + 1, !.exit = "failed",
                            !.error = "already exists"]
          ELSE [repo EXCEPT !.issues = repo.issues + 1, !.exit = "added",
                            !.error = "none",
                            !.data[category] =
                               (targetFile :> Append(existing, obj)) @@ dataDir]
  /\ UNCHANGED << pageVars, editor >>

\* val.replaceAll('_', '').toLowerCase() === 'no response' | 'n/a' | 'na' |
\* 'none' | 'null', of which the inputs use 'na'.
IsPlaceholder(val) ==
  LET noUnderscore == SelectSeq(val, LAMBDA ch : ch # "_")
      lower == [n \in 1..Len(noUnderscore) |->
                  ToLowerCase(noUnderscore[n])]
  IN lower \in { << "n", "a" >>, << "n", "/", "a" >>,
                 << "n", "o", "n", "e" >>, << "n", "u", "l", "l" >> }

\* cleanOptional: undefined (here the empty text) for an empty field or a
\* placeholder, the text otherwise.
CleanOptional(raw) == IF raw = << >> \/ IsPlaceholder(raw) THEN << >> ELSE raw

\* A parsed issue form with every required field filled in.
FullForm(id) ==
  [unique_id |-> id, name_english |-> << "M", "i" >>, category |-> << "h" >>,
   variantsParse |-> TRUE]

\* The parsed issue forms: the fields that buildSingerObject and
\* buildSoftwareObject require, and whether RJSON.parse accepts the variants.
\* A full form for each id, and forms with one field empty, a placeholder or
\* unparsable, or all of them.
Forms ==
  LET full == FullForm(<< "a", "1" >>) IN
  { FullForm(id) : id \in IssueIds }
  \cup { [full EXCEPT !.unique_id = << >>],
         [full EXCEPT !.unique_id = << "N", "A" >>],
         [full EXCEPT !.name_english = << >>],
         [full EXCEPT !.name_english = << "_", "n", "a", "_" >>],
         [full EXCEPT !.category = << >>],
         [full EXCEPT !.variantsParse = FALSE],
         [unique_id |-> << >>, name_english |-> << >>, category |-> << >>,
          variantsParse |-> FALSE] }

\* Variant of BuildError without the test of names.en.
BuildErrorNoNameTest(category, form) ==
  IF category = "singer" /\ ~form.variantsParse THEN "Invalid JSON in Variants"
  ELSE IF CleanOptional(form.unique_id) = << >> THEN "Missing required field: id"
  ELSE IF category = "software" /\ CleanOptional(form.category) = << >>
  THEN "Missing required field: category"
  ELSE "none"

\* The error buildSingerObject / buildSoftwareObject throws, "none" if it
\* returns the object.
BuildError(category, form) ==
  IF category = "singer" /\ ~form.variantsParse THEN "Invalid JSON in Variants"
  ELSE IF CleanOptional(form.unique_id) = << >> THEN "Missing required field: id"
  ELSE IF CleanOptional(form.name_english) = << >>
  THEN "Missing required field: names.en"
  ELSE IF category = "software" /\ CleanOptional(form.category) = << >>
  THEN "Missing required field: category"
  ELSE "none"

\* One workflow run: main() under run().  category is what detectCategory
\* gave; an error thrown while the object is built ends the run in the catch
\* of run(), with the failure comment and process.exit(1).
Main(category, form, valid) ==
  IF BuildError(category, form) # "none"
  THEN /\ repo.issues < MaxIssues
       /\ repo' = [repo EXCEPT !.issues = repo.issues + 1, !.exit = "failed",
                               !.error = BuildError(category, form)]
       /\ UNCHANGED << pageVars, editor >>
  ELSE ProcessIssue(category, CleanOptional(form.unique_id), valid)

NextPipeline ==
  \E c \in Category : \E form \in Forms : \E valid \in BOOLEAN :
     Main(c, form, valid)

SpecPipeline == Init /\ [][NextPipeline]_vars

\* The answers to the request of getIssueLabels: the fetch rejects, the
\* response is not ok, or it carries the labels of the issue.
LabelAnswers ==
  { [kind |-> "threw", labels |-> << >>], [kind |-> "notOk", labels |-> << >>] }
  \cup { [kind |-> "ok", labels |-> l] :
            l \in { << >>, << "singer" >>, << "software" >>, << "bug", "Singer" >>,
                    << "software", "singer" >>, << "bug" >> } }

\* Issue titles as the lists of their words.
Titles ==
  { << >>, << "New", "Singer" >>, << "new", "software" >>,
    << "software", "for", "singer" >>, << "singers" >>, << "Software", "update" >> }

\* A field of parseIssueForm's result: undefined without its heading, the
\* trimmed text under the heading otherwise.
FormFields ==
  { [def |-> FALSE, value |-> ""], [def |-> TRUE, value |-> ""],
    [def |-> TRUE, value |-> "host"] }

Issues ==
  [labels : LabelAnswers, title : Titles, category : FormFields,
   developers : FormFields]

\* String.prototype.toLowerCase on one word.
LowerWord(w) ==
  IF w = "Singer" THEN "singer" ELSE IF w = "Software" THEN "software"
  ELSE IF w = "New" THEN "new" ELSE w

\* getIssueLabels: [] when the response is not ok, the label names otherwise;
\* a rejected fetch makes it throw.
GetIssueLabels(answer) ==
  IF answer.kind = "threw" THEN [threw |-> TRUE, labels |-> << >>]
  ELSE IF answer.kind = "notOk" THEN [threw |-> FALSE, labels |-> << >>]
  ELSE [threw |-> FALSE, labels |-> answer.labels]

\* labels.includes(word) after .map((s) => String(s).toLowerCase())
Includes(labels, word) == \E n \in 1..Len(labels) : LowerWord(labels[n]) = word

\* /(^|\b)word(\b|$)/.test(issueTitle.toLowerCase())
TitleHas(title, word) == \E n \in 1..Len(title) : LowerWord(title[n]) = word

\* `data.category`, `data.developers` as a condition: a non-empty text.
FieldTruthy(field) == field.def /\ field.value # ""

\* Variant of DetectCategory that looks at the title before the labels.
DetectCategoryTitleFirst(issue) ==
  LET got == GetIssueLabels(issue.labels) IN
  IF TitleHas(issue.title, "singer") THEN "singer"
  ELSE IF TitleHas(issue.title, "software") THEN "software"
  ELSE IF ~got.threw /\ Includes(got.labels, "singer") THEN "singer"
  ELSE IF ~got.threw /\ Includes(got.labels, "software") THEN "software"
  ELSE IF FieldTruthy(issue.category) \/ FieldTruthy(issue.developers)
  THEN "software"
  ELSE "singer"

\* detectCategory: the try block around the labels, then the title, then the
\* form fields.
DetectCategory(issue) ==
  LET got == GetIssueLabels(issue.labels) IN
  IF ~got.threw /\ Includes(got.labels, "singer") THEN "singer"
  ELSE IF ~got.threw /\ Includes(got.labels, "software") THEN "software"
  ELSE IF TitleHas(issue.title, "singer") THEN "singer"
  ELSE IF TitleHas(issue.title, "software") THEN "software"
  ELSE IF FieldTruthy(issue.category) \/ FieldTruthy(issue.developers)
  THEN "software"
  ELSE "singer"

\* `const category = await detectCategory()` of a workflow run.
Detect(issue) ==
  /\ repo' = [repo EXCEPT !.issue = issue, !.category = DetectCategory(issue)]
  /\ UNCHANGED << pageVars, editor >>

NextDetect == \E issue \in Issues : Detect(issue)

SpecDetect == Init /\ [][NextDetect]_vars

\* ------------------------------------------------------------ submit.ts
\* Ids are lists of characters; positions count from 1 where the code's
\* indexes count from 0.  variantIdCounter only names DOM nodes and is left out.
\* The cards the editor may hold at most.
MaxCards == 2

\* `singerId.length < 5`
MinSingerIdLength == 5

\* The characters [a-z0-9] of the id pattern that the inputs use.
LowerAlnum == {"a", "b", "c", "d", "e", "k", "n", "t", "x"}

\* /^[a-z0-9]+(?:-[a-z0-9]+)*$/.test(s)
TestIdPattern(s) ==
  /\ Len(s) > 0
  /\ \A n \in 1..Len(s) :
        \/ s[n] \in LowerAlnum
        \/ /\ s[n] = "-"
           /\ n > 1 /\ n < Len(s)
           /\ s[n - 1] \in LowerAlnum /\ s[n + 1] \in LowerAlnum

\* s.startsWith(prefix)
StartsWith(s, prefix) ==
  Len(s) >= Len(prefix) /\ SubSeq(s, 1, Len(prefix)) = prefix

\* The ids of ./registry/v1/singers/all.json.
RegistryIds == { << "t", "a", "k", "e", "n" >> }

\* What the user may type as singer id.
SingerIdInputs ==
  { << >>, << "a", "b", "c", "d", "e" >>, << "a", "b", "-" >>,
    << "t", "a", "k", "e", "n" >> }

\* null, and the one URL of the inputs for which `new URL(u)` does not throw.
Null == "null"
ParsesAsUrl(u) == u = "https://example.com/f.zip"

\* validateSingerId(): valid and the messages, in the order pushed.
ValidateSingerId(e) ==
  LET messages ==
        IF e.singerId = << >> THEN << "Singer ID is required." >>
        ELSE (IF Len(e.singerId) < MinSingerIdLength
              THEN << "Must be at least 5 characters." >> ELSE << >>)
          \o (IF ~TestIdPattern(e.singerId)
              THEN << "Use lowercase letters, numbers, hyphen separated." >>
              ELSE << >>)
          \o (IF e.singerId \in e.existingSingerIds
              THEN << "This ID already exists. Pick another." >> ELSE << >>)
  IN [valid |-> messages = << >>, messages |-> messages]

\* validateVariant(variant, allVariants): the fields of the errors pushed.
ValidateVariant(e, variant, allVariants) ==
  LET singerValidation == ValidateSingerId(e)
      dupCount == Cardinality({ n \in 1..Len(allVariants) :
                                  allVariants[n].id = variant.id })
  IN (IF ~singerValidation.valid THEN << "singer_id" >> ELSE << >>)
     \o (IF variant.id = << >> THEN << "id" >>
         ELSE IF ~TestIdPattern(variant.id) THEN << "id" >>
         ELSE IF singerValidation.valid
                 /\ ~StartsWith(variant.id, e.singerId \o << "-" >>)
         THEN << "id" >> ELSE << >>)
     \o (IF variant.id # << >> /\ dupCount > 1 THEN << "id" >> ELSE << >>)
     \o (IF DOMAIN variant.names = {} THEN << "names" >>
         ELSE IF "en" \notin DOMAIN variant.names \/ variant.names["en"] = ""
         THEN << "names" >> ELSE << >>)
     \o (IF variant.file_url # Null /\ variant.file_url # ""
            /\ ~ParsesAsUrl(variant.file_url)
         THEN << "file_url" >> ELSE << >>)
     \o (IF variant.download_page_url # Null /\ variant.download_page_url # ""
            /\ ~ParsesAsUrl(variant.download_page_url)
         THEN << "download_page_url" >> ELSE << >>)
     \o (IF variant.file_url \in {Null, ""}
            /\ variant.download_page_url \in {Null, ""}
         THEN << "urls" >> ELSE << >>)

\* Sequence concatenation of the error lists of the variants 1..n.
RECURSIVE VariantErrors(_, _)
VariantErrors(e, n) ==
  IF n = 0 THEN << >>
  ELSE VariantErrors(e, n - 1) \o ValidateVariant(e, e.variants[n], e.variants)

\* validateAllVariants()
ValidateAllVariants(e) ==
  IF Len(e.variants) = 0
  THEN [isValid |-> FALSE, errors |-> << "general" >>]
  ELSE LET singerValidation == ValidateSingerId(e)
           allErrors ==
             (IF ~singerValidation.valid
              THEN [n \in 1..Len(singerValidation.messages) |-> "Singer ID"]
              ELSE << >>)
             \o VariantErrors(e, Len(e.variants))
       IN [isValid |-> allErrors = << >>, errors |-> allErrors]

\* updateOutput(): the JSON and the enabled copy button, or the placeholder
\* and the disabled button.
UpdateOutput(e) ==
  LET singerValid == ValidateSingerId(e).valid
      validation == ValidateAllVariants(e)
      singerErrors ==
        (IF e.singerNames.en = "" THEN << "English name is required" >> ELSE << >>)
        \o (IF e.owners = << >> THEN << "At least one owner is required" >> ELSE << >>)
        \o (IF e.authors = << >> THEN << "At least one author is required" >> ELSE << >>)
      allValid == validation.isValid /\ singerValid /\ singerErrors = << >>
  IN IF allValid
     THEN [e EXCEPT !.output = "json", !.copyDisabled = FALSE]
     ELSE [e EXCEPT !.output = "placeholder", !.copyDisabled = TRUE]

\* JSON.stringify of one variant: its own properties in insertion order, as
\* key / value pairs; a deleted `tags` is not written.
StringifyVariant(v) ==
  << << "id", v.id >>, << "names", v.names >>, << "file_url", v.file_url >>,
     << "download_page_url", v.download_page_url >> >>
  \o (IF "tags" \in DOMAIN v THEN << << "tags", v.tags >> >> ELSE << >>)

\* JSON.parse of one variant: the object with the pairs' keys.
ParseVariant(json) ==
  [key \in { json[n][1] : n \in 1..Len(json) } |->
     json[CHOOSE n \in 1..Len(json) : json[n][1] = key][2]]

\* saveState(): localStorage.setItem('svs-variants-draft', JSON.stringify(..)).
SaveState(e) ==
  [e EXCEPT !.draft =
     [saved |-> TRUE,
      text |-> [n \in 1..Len(e.variants) |-> StringifyVariant(e.variants[n])]]]

\* The variant addVariant() pushes, and the card addVariantToDOM() builds for
\* position index: both URL checkboxes checked, three empty name inputs.
EmptyVariant ==
  [id |-> << >>, names |-> [l \in {"en", "ja", "zh"} |-> ""],
   file_url |-> Null, download_page_url |-> Null, tags |-> << >>]
EmptyCard(index) ==
  [index |-> index, dataIndex |-> index, id |-> << >>,
   names |-> [l \in {"en", "ja", "zh"} |-> ""],
   file |-> [checked |-> TRUE, value |-> ""],
   download |-> [checked |-> TRUE, value |-> ""],
   tags |-> << >>]

\* The value updateVariantFromDOM reads from a URL input and its checkbox.
UrlOf(input) ==
  IF input.checked THEN Null ELSE IF input.value = "" THEN Null ELSE input.value

\* The variant updateVariantFromDOM reads from a card: the names that have a
\* value, the tags that are not empty, no `tags` when there is none.
VariantOfCard(card) ==
  LET named == { l \in DOMAIN card.names : card.names[l] # "" }
      tags == SelectSeq(card.tags, LAMBDA t : t # "")
      v == [id |-> card.id, names |-> [l \in named |-> card.names[l]],
            file_url |-> UrlOf(card.file),
            download_page_url |-> UrlOf(card.download)]
  IN IF tags = << >> THEN v ELSE ("tags" :> tags) @@ v

\* populateVariantFields(index, variant) on the card of addVariantToDOM.
PopulatedCard(index, variant) ==
  [EmptyCard(index) EXCEPT
     !.id = variant.id,
     !.names = [l \in DOMAIN variant.names \cup {"ja", "zh"} |->
                  IF l \in DOMAIN variant.names THEN variant.names[l] ELSE ""],
     !.file = IF variant.file_url = Null
              THEN [checked |-> TRUE, value |-> ""]
              ELSE [checked |-> FALSE, value |-> variant.file_url],
     !.download = IF variant.download_page_url = Null
                  THEN [checked |-> TRUE, value |-> ""]
                  ELSE [checked |-> FALSE, value |-> variant.download_page_url],
     !.tags = IF "tags" \in DOMAIN variant THEN variant.tags ELSE << >>]

\* updateVariantFromDOM(index): the first element carrying data-index=index
\* is read into variants[index]; without such a card or such a variant
\* nothing happens.
UpdateVariantFromDOM(e, index) ==
  LET hits == { k \in 1..Len(e.cards) : e.cards[k].dataIndex = index } IN
  IF hits = {} \/ index \notin 1..Len(e.variants) THEN e
  ELSE LET card == e.cards[CHOOSE k \in hits : \A j \in hits : k <= j] IN
       UpdateOutput(SaveState([e EXCEPT !.variants[index] = VariantOfCard(card)]))

\* seq without its element at position k (splice(k, 1); nothing is removed
\* when k is past the end).
Splice(seq, k) ==
  IF k \in 1..Len(seq)
  THEN SubSeq(seq, 1, k - 1) \o SubSeq(seq, k + 1, Len(seq)) ELSE seq

\* reindexVariants(): data-index becomes the card's position; the index the
\* card's listeners closed over stays.
Reindexed(cards) ==
  [k \in 1..Len(cards) |-> [cards[k] EXCEPT !.dataIndex = k]]

\* addVariant()
AddVariantTo(e) ==
  UpdateOutput(SaveState(
    [e EXCEPT !.variants = Append(e.variants, EmptyVariant),
              !.cards = Append(e.cards, EmptyCard(Len(e.variants) + 1))]))

\* DOMContentLoaded: the listeners are wired, loadExistingSingerIds() starts
\* its fetch, and loadState() restores the draft (one populated card per
\* saved variant) or, without a draft, adds one empty variant.
OpenEditor ==
  /\ ~editor.open
  /\ LET e == [open |-> TRUE, draft |-> editor.draft,
               singerId |-> << >>, singerNames |-> [en |-> ""],
               owners |-> << >>, authors |-> << >>,
               existingSingerIds |-> {}, idsLoaded |-> FALSE,
               variants |-> << >>, cards |-> << >>,
               output |-> "placeholder", copyDisabled |-> TRUE]
         parsed == [n \in 1..Len(editor.draft.text) |->
                      ParseVariant(editor.draft.text[n])]
     IN editor' =
          IF editor.draft.saved
          THEN UpdateOutput(
                 [e EXCEPT !.variants = parsed,
                           !.cards = [n \in 1..Len(parsed) |->
                                        PopulatedCard(n, parsed[n])]])
          ELSE AddVariantTo(e)
  /\ UNCHANGED << pageVars, repo >>

\* The page is closed or reloaded: localStorage is all that stays.
CloseEditor ==
  /\ editor.open
  /\ editor' = [open |-> FALSE, draft |-> editor.draft]
  /\ UNCHANGED << pageVars, repo >>

\* loadExistingSingerIds() after its fetch: the ids of the registry, or none
\* when the fetch failed; then validateSingerId() and updateOutput().
LoadExistingSingerIds(ok) ==
  /\ editor.open
  /\ ~editor.idsLoaded
  /\ editor' = UpdateOutput(
       [editor EXCEPT !.idsLoaded = TRUE,
                      !.existingSingerIds = IF ok THEN RegistryIds ELSE {}])
  /\ UNCHANGED << pageVars, repo >>

\* 'input' on #singer-id.
SingerIdInput(id) ==
  /\ editor.open
  /\ editor' = UpdateOutput([editor EXCEPT !.singerId = id])
  /\ UNCHANGED << pageVars, repo >>

\* updateSingerNamesFromDOM / updateOwnersFromDOM / updateAuthorsFromDOM
\* after the user changed the English name, the owners or the authors.
SingerNamesInput(en) ==
  /\ editor.open
  /\ editor' = UpdateOutput([editor EXCEPT !.singerNames = [en |-> en]])
  /\ UNCHANGED << pageVars, repo >>

OwnersInput(names) ==
  /\ editor.open
  /\ editor' = UpdateOutput(
       [editor EXCEPT !.owners = SelectSeq(names, LAMBDA o : o # "")])
  /\ UNCHANGED << pageVars, repo >>

AuthorsInput(names) ==
  /\ editor.open
  /\ editor' = UpdateOutput(
       [editor EXCEPT !.authors = SelectSeq(names, LAMBDA a : a # "")])
  /\ UNCHANGED << pageVars, repo >>

\* click on #add-variant
AddVariant ==
  /\ editor.open
  /\ Len(editor.variants) < MaxCards
  /\ Len(editor.cards) < MaxCards
  /\ editor' = AddVariantTo(editor)
  /\ UNCHANGED << pageVars, repo >>

\* What an edit may leave in the inputs of a card: the variant id, the
\* English name, the file URL and its checkbox.
CardInputs ==
  LET good == << "a", "b", "c", "d", "e", "-", "x" >>
      url(u) == [checked |-> FALSE, value |-> u]
  IN { [id |-> good, en |-> "n", file |-> url("https://example.com/f.zip")],
       [id |-> << >>, en |-> "n", file |-> url("https://example.com/f.zip")],
       [id |-> << "a", "b", "c", "d", "e", "-", "-", "x" >>, en |-> "n",
        file |-> url("https://example.com/f.zip")],
       [id |-> good, en |-> "n", file |-> url("not a url")],
       [id |-> good, en |-> "n", file |-> url("")],
       [id |-> good, en |-> "", file |-> [checked |-> TRUE, value |-> ""]] }

\* The user edits the inputs of the k-th card on the page; the listener
\* calls updateVariantFromDOM with the index it closed over.
CardInput(k, input) ==
  /\ editor.open
  /\ k \in 1..Len(editor.cards)
  /\ LET card == [editor.cards[k] EXCEPT
                    !.id = input.id,
                    !.names = ("en" :> input.en) @@ editor.cards[k].names,
                    !.file = input.file]
     IN /\ card # editor.cards[k]
        /\ editor' = UpdateVariantFromDOM([editor EXCEPT !.cards[k] = card],
                                          card.index)
  /\ UNCHANGED << pageVars, repo >>

\* click on the k-th card's remove button, confirmed: splice at the index the
\* listener closed over, remove the card, reindex, save, update.
RemoveVariant(k) ==
  /\ editor.open
  /\ k \in 1..Len(editor.cards)
  /\ editor' = UpdateOutput(SaveState(
       [editor EXCEPT !.variants = Splice(editor.variants, editor.cards[k].index),
                      !.cards = Reindexed(Splice(editor.cards, k))]))
  /\ UNCHANGED << pageVars, repo >>

\* resetForm(), confirmed.
ResetForm ==
  /\ editor.open
  /\ editor' = AddVariantTo(
       [editor EXCEPT !.variants = << >>, !.cards = << >>,
                      !.draft = [saved |-> FALSE, text |-> << >>]])
  /\ UNCHANGED << pageVars, repo >>

NextEditor ==
  \/ OpenEditor
  \/ CloseEditor
  \/ \E ok \in BOOLEAN : LoadExistingSingerIds(ok)
  \/ \E id \in SingerIdInputs : SingerIdInput(id)
  \/ \E en \in {"", "n"} : SingerNamesInput(en)
  \/ \E names \in {<< "" >>, << "o" >>} : OwnersInput(names)
  \/ \E names \in {<< "" >>, << "a" >>} : AuthorsInput(names)
  \/ AddVariant
  \/ \E k \in 1..MaxCards :
        \/ \E input \in CardInputs : CardInput(k, input)
        \/ RemoveVariant(k)
  \/ ResetForm

\* The editor page has no manifest: one of the two initial manifests is
\* enough.
InitEditor == Init /\ manifest.singers[1].file = "a.json"

SpecEditor == InitEditor /\ [][NextEditor]_vars

\* ------------------------------------------------------------ properties
RangeOf(seq) == { seq[n] : n \in 1..Len(seq) }

\* The shard files the manifest lists for a category, and their timestamps.
EntryFiles(category) == { e.file : e \in RangeOf(Entries(category)) }
ManTs(category, f) == (CHOOSE e \in RangeOf(Entries(category)) : e.file = f).ts

\* The URL of a shard, as section 6 of the specification gives it.
ShardUrl(category, f) ==
  IF category = "singer" THEN "/data/singers/" \o f ELSE "/data/softwares/" \o f

\* The metadata key of a shard: <category>:file:<shard-filename>.
ShardKey(category, f) ==
  IF category = "singer" THEN "singer:file:" \o f ELSE "software:file:" \o f

\* Every record of items is in the category's partition, as fetched.
InStore(category, items) ==
  \A r \in RangeOf(items) :
     /\ r.id \in DOMAIN db[StoreOf(category)]
     /\ db[StoreOf(category)][r.id] = r

\* The sync call of the category has been made and has not been dropped.
Called(category) == sync[category].pc # "idle"
Returned(category) == sync[category].pc = "done"
Scanned(category) == sync[category].pc \in {"fetch", "setMeta", "put", "done"}

\* When the call started, the shard had a stored timestamp / the manifest
\* timestamp was strictly greater than the stored one (or none was stored).
HadMeta(category, f) == ShardKey(category, f) \in DOMAIN hist[category].meta0
Stored0(category, f) == hist[category].meta0[ShardKey(category, f)]
Newer0(category, f) ==
  ~HadMeta(category, f) \/ ManTs(category, f) > Stored0(category, f)

\* The metadata of the shard is what it was when the call started.
MetaUntouched(category, f) ==
  LET key == ShardKey(category, f) IN
  /\ key \notin hist[category].metaSet
  /\ IF HadMeta(category, f)
     THEN key \in DOMAIN db.meta /\ db.meta[key] = Stored0(category, f)
     ELSE key \notin DOMAIN db.meta

\* The call has fetched nothing and written nothing.
NoEffect(category) ==
  /\ hist[category].fetched = << >>
  /\ hist[category].puts = 0
  /\ \A f \in ShardFiles(category) : MetaUntouched(category, f)

\* C1: a shard's metadata timestamp is advanced only after the transaction
\* that writes the shard's records has completed: in no state has a sync call
\* written the metadata of a fetched shard while a record of that shard is
\* not in the Store.
C1_MetaOnlyAfterRecords ==
  \A c \in Category : \A f \in ShardFiles(c) :
     (Called(c) /\ ShardKey(c, f) \in hist[c].metaSet)
        => (f \in DOMAIN hist[c].got /\ InStore(c, hist[c].got[f]))

\* C2: whatever interrupted earlier syncs (page closed, Store failure), once a
\* sync has returned with every fetch answered, the Store holds every record
\* of every shard the manifest lists at its current timestamp.
C2_InterruptedSyncIsRedone ==
  \A c \in Category :
     (Returned(c) /\ hist[c].failed = {})
        => \A f \in EntryFiles(c) :
              ManTs(c, f) = srvTs[f] => InStore(c, ShardData(f, srvTs[f]))

\* C3 as stated: whenever a sync call follows a returned call of the same
\* category under the same manifest, it fetches nothing and writes nothing.
C3_SecondCallDoesNothing ==
  \A c \in Category :
     (Called(c) /\ last[c].outcome \in {"clean", "partial"}) => NoEffect(c)

\* C3 as amended: a sync call that follows a returned call of the same
\* category in which every fetch gave an array, under the same manifest,
\* fetches nothing and leaves the records and the metadata unchanged.
C3_SecondCallAfterCleanDoesNothing ==
  \A c \in Category :
     (Called(c) /\ last[c].outcome = "clean")
        => (NoEffect(c) /\ sync[c].pc \in {"getMeta", "done", "rejected"})

C3_Witness ==
  \E c \in Category :
     /\ Returned(c)
     /\ last[c].outcome = "clean"
     /\ \A f \in EntryFiles(c) : HadMeta(c, f)
     /\ DOMAIN db[StoreOf(c)] # {}

\* C4: a returned sync call has fetched exactly the manifest entries whose
\* timestamp was greater than the stored one, each once and at its URL, and
\* has left the metadata of every other shard as it was.
C4_FetchesExactlyTheNewer ==
  \A c \in Category :
     Returned(c) =>
       LET newer == { f \in EntryFiles(c) : Newer0(c, f) } IN
       /\ RangeOf(hist[c].fetched) = { ShardUrl(c, f) : f \in newer }
       /\ Len(hist[c].fetched) = Cardinality(newer)
       /\ \A f \in ShardFiles(c) \ newer : MetaUntouched(c, f)

C4_Witness ==
  /\ Returned("singer")
  /\ \A f \in EntryFiles("singer") : HadMeta("singer", f)
  /\ { f \in EntryFiles("singer") : Newer0("singer", f) } = {"a.json"}
  /\ hist["singer"].fetched = << "/data/singers/a.json" >>
  /\ MetaUntouched("singer", "b.json")

\* C5: when two shards were changed and the fetch of one failed, the call
\* still returns; the other shard's records are in the Store and its metadata
\* is the manifest timestamp, the failed shard's metadata is unchanged and
\* still older than the manifest, and the next call fetches the failed shard.
C5_PartialFailureRecovers ==
  \A c \in Category :
     /\ \A bad \in ShardFiles(c) : \A good \in ShardFiles(c) \ {bad} :
          ( /\ Returned(c)
            /\ { f \in EntryFiles(c) : Newer0(c, f) } = {bad, good}
            /\ hist[c].failed = {bad} )
          => /\ good \in DOMAIN hist[c].got
             /\ InStore(c, hist[c].got[good])
             /\ ShardKey(c, good) \in DOMAIN db.meta
             /\ db.meta[ShardKey(c, good)] = ManTs(c, good)
             /\ MetaUntouched(c, bad)
             /\ ManTs(c, bad) > SavedTs(db.meta, ShardKey(c, bad))
     /\ (Returned(c) /\ last[c].outcome = "partial")
          => \A bad \in last[c].failed : ShardUrl(c, bad) \in RangeOf(hist[c].fetched)

C5_Witness ==
  /\ Returned("singer")
  /\ hist["singer"].failed = {Entries("singer")[1].file}
  /\ Len(hist["singer"].fetched) = 2
  /\ hist["singer"].puts = 1
  /\ DOMAIN db.singers # {}

\* The records of the arrays a sync call has received, as a set.
Fetched(category) ==
  UNION { RangeOf(hist[category].got[f]) : f \in DOMAIN hist[category].got }

\* C6: a loadCategory call that found the Store empty and had every fetch
\* succeed has issued one fetch per manifest shard, at the shard's URL, holds
\* every fetched record in the Store, has set each shard's metadata key to the
\* manifest timestamp, and returns the union of the fetched arrays.
C6_FirstLoad ==
  \A c \in Category :
     ( /\ call.kind = "loadCategory" /\ call.category = c /\ call.pc = "resolved"
       /\ hist[c].empty0
       /\ hist[c].failed = {} )
     => /\ RangeOf(hist[c].fetched) = { ShardUrl(c, f) : f \in EntryFiles(c) }
        /\ Len(hist[c].fetched) = Len(Entries(c))
        /\ DOMAIN hist[c].got = EntryFiles(c)
        /\ \A f \in EntryFiles(c) :
              /\ InStore(c, hist[c].got[f])
              /\ ShardKey(c, f) \in DOMAIN db.meta
              /\ db.meta[ShardKey(c, f)] = ManTs(c, f)
        /\ result[c].read
        /\ result[c].items = Fetched(c)

C6_Witness ==
  /\ call.kind = "loadCategory" /\ call.category = "singer" /\ call.pc = "resolved"
  /\ hist["singer"].empty0
  /\ hist["singer"].failed = {}
  /\ Len(hist["singer"].fetched) = 2
  /\ Cardinality(result["singer"].items) >= 2

\* C7: after a returned sync every fetched record is stored under its id
\* exactly as fetched: a record whose id was already in the Store is replaced
\* whole, and a record with a new id is present.
C7_UpdateByOverwrite ==
  \A c \in Category :
     Returned(c) =>
       \A r \in Fetched(c) :
          /\ r.id \in DOMAIN db[StoreOf(c)]
          /\ db[StoreOf(c)][r.id].names = r.names
          /\ db[StoreOf(c)][r.id].homepage_url = r.homepage_url
          /\ DOMAIN db[StoreOf(c)][r.id] = DOMAIN r

C7_Witness ==
  /\ Returned("singer")
  /\ hist["singer"].failed = {}
  /\ HadMeta("singer", "a.json")
  /\ ManTs("singer", "a.json") > Stored0("singer", "a.json")
  /\ "a1" \in hist["singer"].replaced
  /\ "a2" \in hist["singer"].added
  /\ db.singers["a1"].homepage_url = "none"

\* C8: a shard with a stored timestamp is classified as changed exactly when
\* the manifest timestamp is strictly greater; with an equal or lower manifest
\* timestamp it is never fetched and its metadata is never written.
C8_StrictlyGreater ==
  \A c \in Category : \A f \in EntryFiles(c) :
     (Called(c) /\ HadMeta(c, f)) =>
        /\ Scanned(c) =>
             (f \in RangeOf(sync[c].changedFiles) <=> ManTs(c, f) > Stored0(c, f))
        /\ ManTs(c, f) <= Stored0(c, f) =>
             /\ ShardUrl(c, f) \notin RangeOf(hist[c].fetched)
             /\ MetaUntouched(c, f)

C8_Witness ==
  /\ Returned("singer")
  /\ HadMeta("singer", "a.json") /\ HadMeta("singer", "b.json")
  /\ ManTs("singer", "a.json") < Stored0("singer", "a.json")
  /\ ManTs("singer", "b.json") = Stored0("singer", "b.json")
  /\ hist["singer"].fetched = << >>

C10_FastPath ==
  \A c \in Category :
     (Called(c) /\ \A f \in EntryFiles(c) : ~Newer0(c, f)) =>
        /\ sync[c].pc \in {"getMeta", "done", "rejected"}
        /\ sync[c].allData = << >>
        /\ NoEffect(c)

C10_Witness ==
  /\ Returned("singer")
  /\ Len(Entries("singer")) = 2
  /\ \A f \in EntryFiles("singer") : ~Newer0("singer", f)
  /\ last["singer"].outcome = "none"
  /\ NoEffect("singer")

\* The answer of the network carries a JSON array.
CarriesArray(res) ==
  ~res.thrown /\ res.ok /\ res.parses /\ res.json.kind = "array"

\* The shard the sync call of the category is fetching.
Fetching(category) == sync[category].changedFiles[sync[category].k]

\* C11 as stated: a shard whose fetch gave no array, or gave an empty array,
\* is treated as a fetch failure: its metadata is not advanced.
C11_EmptyOrNonArrayIsFailure ==
  \A c \in Category : \A f \in ShardFiles(c) :
     ( /\ Called(c)
       /\ \/ f \in hist[c].failed
          \/ (f \in DOMAIN hist[c].got /\ hist[c].got[f] = << >>) )
     => MetaUntouched(c, f)

\* C11 as amended: a fetch that does not carry a JSON array (throw, non-2xx,
\* unparsable or empty body, null, object, number) is a failure of the shard:
\* nothing is queued or written, no setMeta is issued, the metadata stays as
\* it was and stays older than the manifest; an empty array is a successful
\* fetch: once the call has returned its metadata is the manifest timestamp.
C11_NonArrayIsFailure ==
  /\ [][ \A c \in Category : \A res \in AnyResponse(c) :
            (FetchShard(c, res) /\ ~CarriesArray(res))
               => /\ sync'[c].pc # "setMeta"
                  /\ sync'[c].allData = sync[c].allData
                  /\ db' = db
                  /\ Fetching(c) \in hist'[c].failed ]_vars
  /\ [](\A c \in Category : \A f \in ShardFiles(c) :
          /\ (Called(c) /\ f \in hist[c].failed)
                => /\ MetaUntouched(c, f)
                   /\ f \notin DOMAIN hist[c].got
                   /\ ManTs(c, f) > SavedTs(db.meta, ShardKey(c, f))
          /\ (Returned(c) /\ f \in DOMAIN hist[c].got /\ hist[c].got[f] = << >>)
                => /\ ShardKey(c, f) \in DOMAIN db.meta
                   /\ db.meta[ShardKey(c, f)] = ManTs(c, f))

C11_Witness ==
  /\ Returned("singer")
  /\ hist["singer"].failed = {"a.json"}
  /\ MetaUntouched("singer", "a.json")
  /\ "b.json" \in DOMAIN hist["singer"].got
  /\ hist["singer"].got["b.json"] = << >>
  /\ "singer:file:b.json" \in hist["singer"].metaSet

\* The ids of a list of records.
IdsOf(items) == { r.id : r \in RangeOf(items) }

\* The detail page's boot() has ended.
DetailDone == boot.page = "detail" /\ boot.pc = "done"

\* The sync of the detail page fetched a shard that was newer than the stored
\* metadata and holds the looked-up id.
FoundInUnsynced(f) ==
  /\ Newer0(boot.category, f)
  /\ f \in DOMAIN hist[boot.category].got
  /\ boot.id \in IdsOf(hist[boot.category].got[f])

\* C12: read-through on miss.  The detail page makes at most one sync call
\* and at most two lookups.  A hit at the first lookup renders the stored
\* record with no sync call and no fetch.  A miss is followed by exactly one
\* loadCategory (one ensureCategoryUpdated) and one more lookup; when that
\* sync fetched a not-yet-synced shard holding the id and no Store operation
\* failed, the second lookup obtains the record as fetched and renders it.
C12_ReadThroughOnMiss ==
  boot.page = "detail" =>
    /\ boot.syncs <= 1
    /\ boot.lookups <= 2
    /\ (boot.pc = "loading") => (boot.syncs = 1 /\ boot.lookups = 1)
    /\ (boot.pc = "loading" \/ boot.syncs = 1) =>
          (call.kind = "loadCategory" /\ call.category = boot.category)
    /\ (DetailDone /\ boot.status = "rendered" /\ boot.lookups = 1) =>
          /\ boot.syncs = 0
          /\ call = NoCall
          /\ \A c \in Category : ~Called(c) /\ hist[c].fetched = << >>
          /\ boot.item = GetById(db[StoreOf(boot.category)], boot.id)
          /\ boot.item.def
    /\ (DetailDone /\ boot.thrown = "not found") =>
          (boot.syncs = 1 /\ boot.lookups = 2 /\ call.pc = "resolved")
    /\ (DetailDone /\ boot.lookups = 2) => boot.syncs = 1
    /\ \A f \in ShardFiles(boot.category) :
          (DetailDone /\ boot.syncs = 1 /\ boot.thrown # "store"
             /\ FoundInUnsynced(f)) =>
             /\ boot.status = "rendered"
             /\ boot.lookups = 2
             /\ boot.item.def
             /\ boot.item.value \in RangeOf(hist[boot.category].got[f])

\* A freshly added record: a2 was not cached, the one sync fetched a.json and
\* the second lookup rendered it.
C12_Witness ==
  /\ DetailDone
  /\ boot.id = "a2"
  /\ boot.status = "rendered"
  /\ boot.syncs = 1
  /\ boot.lookups = 2
  /\ FoundInUnsynced("a.json")
  /\ boot.item.value.id = "a2"

\* C13: an id that is absent from the Store at the first lookup and still
\* absent after the single sync and retry ends the lookup with an explicit
\* absent result: nothing is thrown, the page does not end in the state that
\* storage and fetch errors end in, and there was one sync and two lookups.
C13_NotFoundIsExplicit ==
  (DetailDone /\ boot.lookups = 2 /\ ~boot.item.def) =>
     /\ boot.thrown = "none"
     /\ boot.status # FailedText("detail")
     /\ boot.syncs = 1

\* The sync of the category was ended by a failing Store operation.
SyncFailed(category) == sync[category].pc = "rejected"

NothingToSync(category) ==
  ~HasEntries(category) \/ Entries(category) = << >>

\* C15: under a missing or empty manifest a sync call completes without
\* error and without a fetch, and the call that awaited it returns the
\* records that are cached.
C15_MalformedManifestIsNoSync ==
  \A c \in Category :
     (Called(c) /\ NothingToSync(c)) =>
        /\ Returned(c)
        /\ hist[c].fetched = << >>
        /\ result[c].read => result[c].items = GetAll(db[StoreOf(c)])

\* The other category.
Other(category) == IF category = "singer" THEN "software" ELSE "singer"

\* A step of the category's ensureCategoryUpdated between two await points.
StepOf(category) ==
  \/ ScanShard(category)
  \/ \E res \in AnyResponse(category) : FetchShard(category, res)
  \/ AdvanceMeta(category)
  \/ PutRecords(category)
  \/ StoreFail(category)

\* The step leaves the category's sync, partition and metadata as they were.
Untouched(category) ==
  /\ sync'[category] = sync[category]
  /\ hist'[category] = hist[category]
  /\ db'[StoreOf(category)] = db[StoreOf(category)]
  /\ \A f \in ShardFiles(category) :
        GetMeta(db'.meta, MetaKey(category, f)) = GetMeta(db.meta, MetaKey(category, f))

\* C16: the two syncs of loadAllData share no state.  No step of one sync,
\* at whatever point of the other it is taken, reads or changes the other's
\* position, partition or metadata; so when both have returned, each
\* category's partition, metadata and snapshot are what that category's sync
\* alone produces from the metadata and the answers it got, whichever sync
\* ran first: it fetched exactly its newer shards, stored what it fetched,
\* advanced exactly the fetched shards' metadata, and the snapshots were read
\* from the final partitions.
C16_SyncsAreIndependent ==
  /\ [][ \A c \in Category : StepOf(c) => Untouched(Other(c)) ]_vars
  /\ []( (call.kind = "loadAllData" /\ \A c \in Category : Returned(c)) =>
           \A c \in Category :
              LET newer == { f \in EntryFiles(c) : Newer0(c, f) } IN
              /\ RangeOf(hist[c].fetched) = { ShardUrl(c, f) : f \in newer }
              /\ DOMAIN hist[c].got \cup hist[c].failed = newer
              /\ \A f \in DOMAIN hist[c].got :
                    /\ InStore(c, hist[c].got[f])
                    /\ db.meta[ShardKey(c, f)] = ManTs(c, f)
              /\ \A f \in ShardFiles(c) \ DOMAIN hist[c].got : MetaUntouched(c, f)
              /\ hist[c].puts <= 1
              /\ result[c].read => result[c].items = GetAll(db[StoreOf(c)]) )

\* loadAllData has resolved after both syncs fetched and stored their shards.
C16_Witness ==
  /\ call.kind = "loadAllData"
  /\ call.pc = "resolved"
  /\ \A c \in Category :
        /\ Returned(c)
        /\ hist[c].puts = 1
        /\ hist[c].failed = {}
        /\ result[c].read
        /\ result[c].items # {}

\* C20: a snapshot is read only when every sync the call awaits has
\* completed (loadCategory: its one sync; loadAllData: both), so the list a
\* call returns for a category holds every record that category's sync
\* fetched and wrote, and is the content of the partition after the sync.
C20_ReadsAfterSync ==
  \A c \in Category :
     result[c].read =>
        /\ c \in Awaited
        /\ \A a \in Awaited : Returned(a)
        /\ call.kind = "loadAllData" => \A a \in Category : Returned(a)
        /\ \A f \in DOMAIN hist[c].got :
              RangeOf(hist[c].got[f]) \subseteq result[c].items
        /\ result[c].items = GetAll(db[StoreOf(c)])

\* The detail page's loadCategory returned the records its sync had just
\* written.
C20_Witness ==
  /\ call.kind = "loadCategory"
  /\ call.pc = "resolved"
  /\ result[call.category].read
  /\ hist[call.category].puts = 1
  /\ hist[call.category].added # {}
  /\ hist[call.category].added \subseteq { r.id : r \in result[call.category].items }

\* The ids of a shard file of the repository, in file order.
ShardIds(category, file) ==
  [n \in 1..Len(repo.data[category][file]) |-> repo.data[category][file][n].id]

\* C17: whatever submissions were processed, no shard file holds two records
\* with one id and no id is in two shard files of a category; and a
\* submission whose id is already in its target shard ends the run with the
\* 'already exists' error and leaves every file as it was.
C17_ShardIdsUnique ==
  /\ [][ \A c \in Category : \A id \in IssueIds :
           ( /\ ProcessIssue(c, id, TRUE)
             /\ TargetFile(id) \in DOMAIN repo.data[c]
             /\ id \in RangeOf(ShardIds(c, TargetFile(id))) )
           => /\ repo'.exit = "failed"
              /\ repo'.error = "already exists"
              /\ repo'.data = repo.data ]_vars
  /\ [](\A c \in Category : \A f \in DOMAIN repo.data[c] :
          /\ \A m, n \in 1..Len(ShardIds(c, f)) :
                ShardIds(c, f)[m] = ShardIds(c, f)[n] => m = n
          /\ \A g \in DOMAIN repo.data[c] \ {f} :
                RangeOf(ShardIds(c, f)) \cap RangeOf(ShardIds(c, g)) = {})

\* a.json of the singers holds two records and a third submission, of an id
\* that is already there, was rejected.
C17_Witness ==
  /\ repo.exit = "failed"
  /\ repo.error = "already exists"
  /\ "a.json" \in DOMAIN repo.data["singer"]
  /\ Len(repo.data["singer"]["a.json"]) = 2
  /\ repo.issues = 3

\* The variants as the form shows them: what each card's inputs hold.
FormVariants ==
  [k \in 1..Len(editor.cards) |-> VariantOfCard(editor.cards[k])]

\* The rules of the Singer Editor on what the form holds.
FormRulesHold ==
  /\ editor.singerId # << >>
  /\ Len(editor.singerId) >= MinSingerIdLength
  /\ TestIdPattern(editor.singerId)
  /\ editor.singerId \notin editor.existingSingerIds
  /\ editor.singerNames.en # ""
  /\ editor.owners # << >>
  /\ editor.authors # << >>
  /\ Len(FormVariants) >= 1
  /\ \A k \in 1..Len(FormVariants) :
        LET v == FormVariants[k] IN
        /\ TestIdPattern(v.id)
        /\ StartsWith(v.id, editor.singerId \o << "-" >>)
        /\ \A j \in 1..Len(FormVariants) : FormVariants[j].id = v.id => j = k
        /\ "en" \in DOMAIN v.names
        /\ (v.file_url # Null \/ v.download_page_url # Null)

\* C18: in no state of the open editor is the copy button enabled (and the
\* JSON shown) while a rule is violated by what the form holds.
C18_CopyOnlyWhenFormValid ==
  (editor.open /\ ~editor.copyDisabled) =>
     (editor.output = "json" /\ FormRulesHold)

\* What a variant says: its id, the names that have a value, its URLs, its
\* tags.
ContentOf(v) ==
  [id |-> v.id,
   names |-> [l \in { m \in DOMAIN v.names : v.names[m] # "" } |-> v.names[l]],
   file_url |-> v.file_url,
   download_page_url |-> v.download_page_url,
   tags |-> IF "tags" \in DOMAIN v THEN v.tags ELSE << >>]

\* C19: after any add, edit and remove the draft in localStorage holds the
\* variants the form shows, in their order, with their ids, names, URLs and
\* tags, so that a reload restores what the user entered.
C19_DraftHoldsTheForm ==
  editor.open =>
     /\ editor.draft.saved
     /\ Len(editor.draft.text) = Len(editor.cards)
     /\ \A n \in 1..Len(editor.cards) :
           ContentOf(ParseVariant(editor.draft.text[n])) = ContentOf(FormVariants[n])

\* C21: within one call of ensureCategoryUpdated the records of all the
\* shards fetched successfully are written by one batched Store write, issued
\* after every fetch of the call has been answered: the write is the call's
\* first, it carries exactly the records fetched, no fetch is outstanding when
\* it is issued, a call makes at most one write, and a call that received no
\* array makes none.
C21_OneBatchedWrite ==
  /\ [][ \A c \in Category :
           PutRecords(c) =>
             /\ hist[c].puts = 0
             /\ sync[c].k = Len(sync[c].changedFiles)
             /\ Len(hist[c].fetched) = Len(sync[c].changedFiles)
             /\ RangeOf(sync[c].allData) = Fetched(c)
             /\ \A f \in DOMAIN hist[c].got :
                   \A n \in 1..Len(hist[c].got[f]) :
                      LET r == hist[c].got[f][n] IN
                      r.id \in DOMAIN db'[StoreOf(c)] ]_vars
  /\ [](\A c \in Category :
           /\ hist[c].puts <= 1
           /\ (hist[c].puts = 1 => DOMAIN hist[c].got # {})
           /\ (sync[c].pc = "put" =>
                  Len(hist[c].fetched) = Len(sync[c].changedFiles)))

C21_Witness ==
  /\ Returned("singer")
  /\ hist["singer"].puts = 1
  /\ DOMAIN hist["singer"].got = {"a.json", "b.json"}
  /\ Len(hist["singer"].fetched) = 2

C21_WitnessNoWrite ==
  /\ Returned("singer")
  /\ Len(hist["singer"].fetched) = 2
  /\ DOMAIN hist["singer"].got = {}
  /\ hist["singer"].puts = 0

\* C22: a step of ensureCategoryUpdated(category) leaves the other category's
\* partition as it was, removes no metadata key, and changes a metadata key
\* only if it is '<category>:file:<f>' for a manifest shard f that the call
\* classified as changed and fetched successfully, and then to f's manifest
\* timestamp; the metadata of shards that were unchanged or whose fetch failed
\* is what the call found.
C22_WritesOnlyItsOwn ==
  /\ [][ \A c \in Category :
           StepOf(c) =>
             /\ db'[StoreOf(Other(c))] = db[StoreOf(Other(c))]
             /\ DOMAIN db.meta \subseteq DOMAIN db'.meta
             /\ \A key \in DOMAIN db'.meta :
                   (key \notin DOMAIN db.meta \/ db'.meta[key] # db.meta[key]) =>
                      \E f \in EntryFiles(c) :
                         /\ key = ShardKey(c, f)
                         /\ Newer0(c, f)
                         /\ f \in DOMAIN hist[c].got
                         /\ db'.meta[key] = ManTs(c, f) ]_vars
  /\ [](\A c \in Category :
           Called(c) =>
             \A f \in ShardFiles(c) :
                (f \notin EntryFiles(c) \/ ~Newer0(c, f) \/ f \in hist[c].failed)
                   => MetaUntouched(c, f))

C22_Witness ==
  /\ Returned("singer")
  /\ hist["singer"].metaSet = {"singer:file:a.json"}
  /\ db.meta["singer:file:a.json"] = 1
  /\ "b.json" \in hist["singer"].failed
  /\ "software:file:s.json" \in DOMAIN db.meta
  /\ DOMAIN db["softwares"] # {}

\* The letter a character stands for, whatever its case.
LetterOf(ch) ==
  IF ch \in {"a", "A"} THEN "a" ELSE IF ch \in {"b", "B"} THEN "b" ELSE ch

\* C23 as stated: every record of shard '<x>.json' has an id whose first
\* character is x.
C23_FileNamedByFirstCharacter ==
  \A c \in Category : \A f \in DOMAIN repo.data[c] :
     \A n \in 1..Len(ShardIds(c, f)) : ShardIds(c, f)[n][1] \o ".json" = f

\* C23: an accepted record is appended to the shard file named by the
\* lower-cased first character of its id and no other file changes, so every
\* record of shard '<x>.json' has an id whose first character is the letter x
\* in either case.
C23_FileNamedByLowerCasedFirst ==
  /\ [][ \A c \in Category : \A id \in IssueIds :
           (ProcessIssue(c, id, TRUE) /\ repo'.exit = "added") =>
              LET f == LetterOf(id[1]) \o ".json"
                  before == IF f \in DOMAIN repo.data[c]
                            THEN repo.data[c][f] ELSE << >>
              IN /\ f \in DOMAIN repo'.data[c]
                 /\ Len(repo'.data[c][f]) = Len(before) + 1
                 /\ repo'.data[c][f][Len(before) + 1].id = id
                 /\ \A n \in 1..Len(before) : repo'.data[c][f][n] = before[n]
                 /\ DOMAIN repo'.data[c] = DOMAIN repo.data[c] \cup {f}
                 /\ \A g \in DOMAIN repo.data[c] \ {f} :
                       repo'.data[c][g] = repo.data[c][g]
                 /\ repo'.data[Other(c)] = repo.data[Other(c)] ]_vars
  /\ [](\A c \in Category : \A f \in DOMAIN repo.data[c] :
          \A n \in 1..Len(ShardIds(c, f)) :
             LetterOf(ShardIds(c, f)[n][1]) \o ".json" = f)

\* a.json of the singers holds the ids "a1" and "A1", b.json the id "b1".
C23_Witness ==
  /\ repo.exit = "added"
  /\ DOMAIN repo.data["singer"] = {"a.json", "b.json"}
  /\ RangeOf(ShardIds("singer", "a.json")) = { << "a", "1" >>, << "A", "1" >> }
  /\ ShardIds("singer", "b.json") = << << "b", "1" >> >>

\* What makes main() reject a submission: the variants text of a singer does
\* not parse, the id or the English name is empty or a placeholder, a
\* software has no category, the link check or the schema validation fails,
\* or the id is already in a record of the target shard.
Blank(text) ==
  text \in { << >>, << "N", "A" >>, << "_", "n", "a", "_" >> }

Rejected(c, form, valid) ==
  \/ c = "singer" /\ ~form.variantsParse
  \/ Blank(form.unique_id)
  \/ Blank(form.name_english)
  \/ c = "software" /\ Blank(form.category)
  \/ ~valid
  \/ \E f \in DOMAIN repo.data[c] :
        /\ f = LetterOf(form.unique_id[1]) \o ".json"
        /\ form.unique_id \in RangeOf(ShardIds(c, f))

\* C24: a run that rejects its submission ends failed, with the error
\* reported, and leaves every shard file of both categories as it was,
\* creating none; a run that rejects nothing ends with the record added; and
\* no step changes a shard file unless the run ends with the record added.
C24_RejectedChangesNothing ==
  /\ [][ \A c \in Category : \A form \in Forms : \A valid \in BOOLEAN :
           Main(c, form, valid) =>
              IF Rejected(c, form, valid)
              THEN /\ repo'.exit = "failed"
                   /\ repo'.error # "none"
                   /\ repo'.data = repo.data
              ELSE /\ repo'.exit = "added"
                   /\ repo'.error = "none" ]_vars
  /\ [][ repo'.data # repo.data => repo'.exit = "added" ]_vars

\* A run rejected for a missing English name, after two records were added.
C24_Witness ==
  /\ repo.exit = "failed"
  /\ repo.error = "Missing required field: names.en"
  /\ repo.issues = 3
  /\ DOMAIN repo.data["singer"] = {"a.json"}
  /\ Len(repo.data["singer"]["a.json"]) = 2

\* The labels of the issue as detectCategory obtained them, in lower case:
\* none when the request failed.
LabelsObtained ==
  IF repo.issue.labels.kind = "ok"
  THEN { LowerWord(l) : l \in RangeOf(repo.issue.labels.labels) } ELSE {}

\* The words of the issue title, in lower case.
TitleWords == { LowerWord(w) : w \in RangeOf(repo.issue.title) }

\* The form carries a category or a developers field with text in it.
SoftwareFields ==
  \/ repo.issue.category.def /\ repo.issue.category.value # ""
  \/ repo.issue.developers.def /\ repo.issue.developers.value # ""

\* C25: detectCategory decides by fixed precedence: the label 'singer', then
\* the label 'software', then the word 'singer' in the title, then the word
\* 'software' in the title, then a category or developers form field with
\* text in it (software), and 'singer' otherwise; when the labels could not be
\* obtained the decision is the one of the title and the form fields, and a
\* category is returned in every case.
C25_DetectionPrecedence ==
  repo.category # "none" =>
    /\ repo.category \in Category
    /\ repo.category =
         IF "singer" \in LabelsObtained THEN "singer"
         ELSE IF "software" \in LabelsObtained THEN "software"
         ELSE IF "singer" \in TitleWords THEN "singer"
         ELSE IF "software" \in TitleWords THEN "software"
         ELSE IF SoftwareFields THEN "software"
         ELSE "singer"
    /\ (repo.issue.labels.kind # "ok" =>
          repo.category =
            IF "singer" \in TitleWords THEN "singer"
            ELSE IF "software" \in TitleWords THEN "software"
            ELSE IF SoftwareFields THEN "software"
            ELSE "singer")

\* The labels name both categories and the title only names software: singer.
C25_Witness ==
  /\ repo.issue.labels = [kind |-> "ok", labels |-> << "software", "singer" >>]
  /\ repo.issue.title = << "new", "software" >>
  /\ repo.category = "singer"

\* The request for the labels failed and the title names software.
C25_WitnessNoLabels ==
  /\ repo.issue.labels.kind = "threw"
  /\ repo.issue.title = << "new", "software" >>
  /\ ~SoftwareFields
  /\ repo.category = "software"

\* The timestamp a manifest gives for a shard of the singers.
TsIn(m, f) == (CHOOSE e \in RangeOf(m.singers) : e.file = f).ts

\* Both tabs have returned from a sync in which each received shard f, the
\* page under the older manifest; the metadata of f is at the newer
\* timestamp and the records of f in the Store are the ones the page
\* received, which are not the ones the second tab received.
StaleUnderNewTimestamp(f) ==
  /\ Returned("singer")
  /\ tab.sync.pc = "done"
  /\ f \in DOMAIN hist["singer"].got
  /\ f \in DOMAIN tab.got
  /\ TsIn(manifest, f) < TsIn(tab.manifest, f)
  /\ GetMeta(db.meta, ShardKey("singer", f)) =
        [def |-> TRUE, value |-> TsIn(tab.manifest, f)]
  /\ hist["singer"].got[f] # tab.got[f]
  /\ InStore("singer", hist["singer"].got[f])

\* C26: no step lowers the stored timestamp of a shard or removes it,
\* whatever the two tabs do; and the Store is never left with the metadata
\* of a shard at the newer timestamp and the shard's records as the tab with
\* the older manifest received them.
C26_TimestampNeverDecreases ==
  /\ [][ \A key \in DOMAIN db.meta :
           key \in DOMAIN db'.meta /\ db'.meta[key] >= db.meta[key] ]_vars
  /\ [](\A f \in ShardFiles("singer") : ~StaleUnderNewTimestamp(f))

\* The first half of C26 alone.
C26_NoStepLowersTimestamp ==
  [][ \A key \in DOMAIN db.meta :
        key \in DOMAIN db'.meta /\ db'.meta[key] >= db.meta[key] ]_vars

\* The second half of C26 alone.
C26_NoStaleRecords ==
  \A f \in ShardFiles("singer") : ~StaleUnderNewTimestamp(f)

\* C27: no step removes an id from a record partition, and a resolved
\* loadCategory returns a record for every id of the partition: a record
\* that the newer version of its shard no longer holds stays in the Store and
\* is returned after that version was fetched and stored.
C27_SyncNeverRemoves ==
  /\ [][ \A c \in Category :
           DOMAIN db[StoreOf(c)] \subseteq DOMAIN db'[StoreOf(c)] ]_vars
  /\ [](\A c \in Category :
           (call.kind = "loadCategory" /\ call.category = c /\ call.pc = "resolved")
              => { r.id : r \in result[c].items } = DOMAIN db[StoreOf(c)])

\* a.json was fetched at its third version, which no longer holds a1; the
\* sync stored it, and loadCategory still returns a1.
C27_Witness ==
  /\ call.kind = "loadCategory"
  /\ call.category = "singer"
  /\ call.pc = "resolved"
  /\ "a.json" \in DOMAIN hist["singer"].got
  /\ "a1" \notin IdsOf(hist["singer"].got["a.json"])
  /\ hist["singer"].puts = 1
  /\ GetMeta(db.meta, ShardKey("singer", "a.json")) = [def |-> TRUE, value |-> 2]
  /\ "a1" \in { r.id : r \in result["singer"].items }

\* C28: whatever was added and removed, the editor shows as many cards as the
\* variants list has entries, and a click on the remove button of the card at
\* position k removes the k-th variant and no other.
C28_RemoveRemovesItsVariant ==
  /\ [](editor.open => Len(editor.cards) = Len(editor.variants))
  /\ [][ \A k \in 1..MaxCards :
           RemoveVariant(k) =>
              /\ k \in 1..Len(editor.variants)
              /\ editor'.variants = Splice(editor.variants, k)
              /\ Len(editor'.cards) = Len(editor.cards) - 1 ]_vars

\* C29: whatever was added and removed before, an edit in the card at
\* position k makes the k-th variant what that card's fields hold and leaves
\* the other variants as they were; so the variants, which the JSON is
\* written from, say what the cards show.
C29_EditUpdatesItsVariant ==
  /\ [][ \A k \in 1..MaxCards : \A input \in CardInputs :
           CardInput(k, input) =>
              /\ k \in 1..Len(editor.variants)
              /\ editor'.variants =
                    [editor.variants EXCEPT ![k] = VariantOfCard(editor'.cards[k])] ]_vars
  /\ [](editor.open =>
          /\ Len(editor.variants) = Len(FormVariants)
          /\ \A n \in 1..Len(FormVariants) :
                ContentOf(editor.variants[n]) = ContentOf(FormVariants[n]))

\* A sync of the category is between two of its await points.
Running(category) == sync[category].pc \in {"getMeta", "fetch", "setMeta", "put"}

\* The sync has ended, or the page that ran it was closed.
Ended(category) == sync[category].pc \in {"done", "rejected", "idle"}

\* C30: a call of ensureCategoryUpdated requests only shards it classified
\* as changed and none of them twice, so never more shards than the manifest
\* lists for the category; and, every awaited operation completing or failing
\* in the end, each running sync ends and a pending loadAllData resolves or
\* rejects (unless the page is closed first).
C30_BoundedFetchesAndTermination ==
  /\ [](\A c \in Category :
           /\ Len(hist[c].fetched) <= Len(sync[c].changedFiles)
           /\ Len(hist[c].fetched) <= Len(Entries(c))
           /\ Cardinality(RangeOf(hist[c].fetched)) = Len(hist[c].fetched)
           /\ RangeOf(hist[c].fetched) \subseteq
                 { ShardUrl(c, f) : f \in RangeOf(sync[c].changedFiles) })
  /\ (Running("singer") ~> Ended("singer"))
  /\ (Running("software") ~> Ended("software"))
  /\ ((call.kind = "loadAllData" /\ call.pc = "sync")
         ~> (call.pc \in {"resolved", "rejected"} \/ call.kind = "none"))

\* loadAllData has resolved after a sync whose fetch of b.json failed and was
\* not repeated: two requests for two changed shards.
C30_Witness ==
  /\ call.kind = "loadAllData"
  /\ call.pc = "resolved"
  /\ sync["singer"].changedFiles = << "a.json", "b.json" >>
  /\ hist["singer"].failed = {"b.json"}
  /\ Len(hist["singer"].fetched) = 2
  /\ Returned("software")

====
